---- MODULE Spec2Model ----
(***************************************************************************)
(* A model of bindata's release writer (src/release.go).                   *)
(*                                                                         *)
(* Two parts:                                                              *)
(*  - the byte-level functions: sanitize, the literal each strategy emits  *)
(*    for a file content, Go's evaluation of that literal, and the         *)
(*    generated <id>_bytes() decode function (specification SpecRT);       *)
(*  - writeRelease as a state machine, one step per I/O call, with the     *)
(*    file system and the output writer as its environment (Spec), and     *)
(*    two such runs one after the other (SpecPair).                        *)
(* Bytes are the integers 0..255; a text is a sequence of bytes.           *)
(***************************************************************************)
EXTENDS Integers, Sequences, FiniteSets, TLC

VARIABLES
    \* ---- writeRelease run (Spec) ----
    c,          \* the Config: [NoCompress, NoMemCopy]
    toc,        \* the table of contents: a sequence of Assets
    files,      \* the file system: path -> current version of the file
    pc,         \* position of the run in writeRelease
    idx,        \* index i of the loop over toc
    out,        \* what the output writer w has accepted, one chunk per write
    calls,      \* every I/O call of the run so far, with its outcome
    openFds,    \* indexes of the assets whose source file is open
    rd,         \* what the strategy writer read from fd for the current asset
    fi,         \* the os.Stat result asset_release_common holds
    ret,        \* writeRelease's return value: "running", "nil" or "error"
    prev,       \* the finished earlier run over the same toc and Config
    \* ---- byte-level pipeline (SpecRT) ----
    rtB,        \* the file content B
    rtStrat,    \* the strategy writer applied to B
    rtStage,    \* "input" -> "emitted" -> "parsed" -> "decoded"
    rtText,     \* the emitted literal
    rtVal,      \* the literal's value / the decoded bytes
    strict      \* whether the Go compiler rejects NUL and a misplaced BOM in source

vars == <<c, toc, files, pc, idx, out, calls, openFds, rd, fi, ret, prev,
          rtB, rtStrat, rtStage, rtText, rtVal, strict>>
runVars == <<c, toc, files, pc, idx, out, calls, openFds, rd, fi, ret, prev>>
rtVars == <<rtB, rtStrat, rtStage, rtText, rtVal, strict>>

\* Bounds.
MaxLen == 4
MaxAssets == 2
MaxPairAssets == 1

\* The bytes file contents are drawn from: NUL, CR, 'A', backtick, the three
\* bytes of the UTF-8 byte order mark (EF BB BF), and FF (never valid UTF-8).
ByteAlphabet == {0, 13, 65, 96, 187, 191, 239, 255}

SeqsUpTo(S, n) == UNION {[1..k -> S] : k \in 0..n}

Drop(s, n) == SubSeq(s, n + 1, Len(s))

Err == [ok |-> FALSE, val |-> <<>>]
Ok(v) == [ok |-> TRUE, val |-> v]

-----------------------------------------------------------------------------
(* unicode/utf8 *)

IsCont(x) == x >= 128 /\ x <= 191

\* Width of the well-formed multi-byte encoding b starts with, or 0.
RuneWidth(b) ==
    LET x == b[1]
        n == Len(b)
        second(lo, hi) == n >= 2 /\ b[2] >= lo /\ b[2] <= hi
        third == n >= 3 /\ IsCont(b[3])
        fourth == n >= 4 /\ IsCont(b[4])
    IN  IF x >= 194 /\ x <= 223 THEN (IF second(128, 191) THEN 2 ELSE 0)
        ELSE IF x = 224 THEN (IF second(160, 191) /\ third THEN 3 ELSE 0)
        ELSE IF x = 237 THEN (IF second(128, 159) /\ third THEN 3 ELSE 0)
        ELSE IF x >= 225 /\ x <= 239 THEN (IF second(128, 191) /\ third THEN 3 ELSE 0)
        ELSE IF x = 240 THEN (IF second(144, 191) /\ third /\ fourth THEN 4 ELSE 0)
        ELSE IF x >= 241 /\ x <= 243 THEN (IF second(128, 191) /\ third /\ fourth THEN 4 ELSE 0)
        ELSE IF x = 244 THEN (IF second(128, 143) /\ third /\ fourth THEN 4 ELSE 0)
        ELSE 0

\* utf8.Valid
RECURSIVE Valid(_)
Valid(b) ==
    IF b = <<>> THEN TRUE
    ELSE IF b[1] < 128 THEN Valid(Tail(b))
    ELSE LET w == RuneWidth(b) IN w > 0 /\ Valid(Drop(b, w))

\* The code point of the well-formed encoding of width w that b starts with.
DecodeRune(b, w) ==
    IF w = 2 THEN ((b[1] % 32) * 64) + (b[2] % 64)
    ELSE IF w = 3 THEN ((b[1] % 16) * 4096) + ((b[2] % 64) * 64) + (b[3] % 64)
    ELSE ((b[1] % 8) * 262144) + ((b[2] % 64) * 4096) + ((b[3] % 64) * 64) + (b[4] % 64)

\* utf8.EncodeRune, for a code point below 0x10000.
EncodeRune(r) ==
    IF r < 128 THEN <<r>>
    ELSE IF r < 2048 THEN <<192 + (r \div 64), 128 + (r % 64)>>
    ELSE <<224 + (r \div 4096), 128 + ((r \div 64) % 64), 128 + (r % 64)>>

-----------------------------------------------------------------------------
(* sanitize *)

BOM == <<239, 187, 191>>
\* `+"`"+`
BacktickEscape == <<96, 43, 34, 96, 34, 43, 96>>
\* `+"\xEF\xBB\xBF"+`
BOMEscape == <<96, 43, 34, 92, 120, 69, 70, 92, 120, 66, 66, 92, 120, 66, 70, 34, 43, 96>>

\* bytes.Replace(s, old, new, -1), old not empty
RECURSIVE Replace(_, _, _)
Replace(s, old, new) ==
    IF Len(s) < Len(old) THEN s
    ELSE IF SubSeq(s, 1, Len(old)) = old
         THEN new \o Replace(Drop(s, Len(old)), old, new)
         ELSE <<s[1]>> \o Replace(Tail(s), old, new)

sanitize(b) == Replace(Replace(b, <<96>>, BacktickEscape), BOM, BOMEscape)

-----------------------------------------------------------------------------
(* StringWriter: every byte b is written as the four characters \xHH *)

LowerHex(n) == IF n < 10 THEN 48 + n ELSE 87 + n

HexEscape(x) == <<92, 120, LowerHex(x \div 16), LowerHex(x % 16)>>

RECURSIVE StringWriter(_)
StringWriter(p) ==
    IF p = <<>> THEN <<>> ELSE HexEscape(p[1]) \o StringWriter(Tail(p))

-----------------------------------------------------------------------------
(* fmt's %q of a []byte: strconv.Quote *)

\* strconv.IsPrint, exact below 0x80; above, the non-printable code points
\* listed are those within reach of ByteAlphabet (U+FEFF, U+FFF9..U+FFFB,
\* U+FFFE, U+FFFF) and the soft hyphen.
IsPrint(r) ==
    IF r < 128 THEN r >= 32 /\ r <= 126
    ELSE r >= 161 /\ r \notin {173, 65279, 65529, 65530, 65531, 65534, 65535}

UEscape(r) ==
    <<92, 117, LowerHex(r \div 4096), LowerHex((r \div 256) % 16),
      LowerHex((r \div 16) % 16), LowerHex(r % 16)>>

\* strconv.appendEscapedRune with quote '"'; enc is r's encoding in the input.
appendEscapedRune(r, enc) ==
    IF r = 34 \/ r = 92 THEN <<92, r>>
    ELSE IF IsPrint(r) THEN enc
    ELSE IF r = 7 THEN <<92, 97>>
    ELSE IF r = 8 THEN <<92, 98>>
    ELSE IF r = 12 THEN <<92, 102>>
    ELSE IF r = 10 THEN <<92, 110>>
    ELSE IF r = 13 THEN <<92, 114>>
    ELSE IF r = 9 THEN <<92, 116>>
    ELSE IF r = 11 THEN <<92, 118>>
    ELSE IF r < 32 \/ r = 127 THEN HexEscape(r)
    ELSE UEscape(r)

RECURSIVE QuoteBody(_)
QuoteBody(s) ==
    IF s = <<>> THEN <<>>
    ELSE IF s[1] < 128 THEN appendEscapedRune(s[1], <<s[1]>>) \o QuoteBody(Tail(s))
    ELSE LET w == RuneWidth(s)
         IN  IF w = 0 THEN HexEscape(s[1]) \o QuoteBody(Tail(s))
             ELSE appendEscapedRune(DecodeRune(s, w), SubSeq(s, 1, w))
                      \o QuoteBody(Drop(s, w))

Quote(b) == <<34>> \o QuoteBody(b) \o <<34>>

-----------------------------------------------------------------------------
(* compress/gzip.  The member is framed as RFC 1952 frames it (the header
   gzip.NewWriter's zero Header gives, then the deflate stream, then a
   checksum and the length); the deflate stream is kept in its stored-block
   form and CRC-32 is replaced by the byte sum, so that the stream is decoded
   by Gunzip and by nothing simpler. *)

GzipHeader == <<31, 139, 8, 0, 0, 0, 0, 0, 0, 255>>

RECURSIVE LittleEndian(_, _)
LittleEndian(n, k) ==
    IF k = 0 THEN <<>> ELSE <<n % 256>> \o LittleEndian(n \div 256, k - 1)

RECURSIVE FromLittleEndian(_)
FromLittleEndian(s) ==
    IF s = <<>> THEN 0 ELSE s[1] + (256 * FromLittleEndian(Tail(s)))

RECURSIVE Checksum(_)
Checksum(b) == IF b = <<>> THEN 0 ELSE b[1] + Checksum(Tail(b))

GzipBody(b) ==
    <<1>> \o LittleEndian(Len(b), 2) \o LittleEndian(65535 - Len(b), 2) \o b
        \o LittleEndian(Checksum(b), 4) \o LittleEndian(Len(b), 4)

\* What gzip.Writer hands to its underlying writer during Write (io.Copy) ...
GzipOnWrite(b) == IF b = <<>> THEN <<>> ELSE GzipHeader
\* ... and during Close, which writes the header when no Write did.
GzipOnClose(b) == IF b = <<>> THEN GzipHeader \o GzipBody(b) ELSE GzipBody(b)

\* gzip.NewReader + io.Copy in the generated bindata_read
Gunzip(d) ==
    IF Len(d) < 23 \/ SubSeq(d, 1, 4) # <<31, 139, 8, 0>> \/ d[11] # 1 THEN Err
    ELSE LET n == FromLittleEndian(SubSeq(d, 12, 13))
         IN  IF \/ FromLittleEndian(SubSeq(d, 14, 15)) # 65535 - n
                \/ Len(d) # 23 + n
             THEN Err
             ELSE LET b == SubSeq(d, 16, 15 + n)
                  IN  IF /\ FromLittleEndian(SubSeq(d, 16 + n, 19 + n)) = Checksum(b)
                         /\ FromLittleEndian(SubSeq(d, 20 + n, 23 + n)) = n
                      THEN Ok(b) ELSE Err

-----------------------------------------------------------------------------
(* The Go compiler's reading of the emitted literal: an expression made of
   raw string literals and interpreted string literals joined by +. *)

ErrP == [ok |-> FALSE, val |-> <<>>, rest |-> <<>>]

HexVal(x) ==
    IF x >= 48 /\ x <= 57 THEN x - 48
    ELSE IF x >= 65 /\ x <= 70 THEN x - 55
    ELSE IF x >= 97 /\ x <= 102 THEN x - 87
    ELSE -1

\* The escape sequence after a backslash: its value and its length.
Escape(t) ==
    LET no == [ok |-> FALSE, val |-> <<>>, n |-> 0]
        simple == [x \in {97, 98, 102, 110, 114, 116, 118, 92, 34} |->
                     CASE x = 97 -> 7 [] x = 98 -> 8 [] x = 102 -> 12
                       [] x = 110 -> 10 [] x = 114 -> 13 [] x = 116 -> 9
                       [] x = 118 -> 11 [] OTHER -> x]
    IN  IF t = <<>> THEN no
        ELSE IF t[1] = 120 THEN
            IF Len(t) >= 3 /\ HexVal(t[2]) >= 0 /\ HexVal(t[3]) >= 0
            THEN [ok |-> TRUE, val |-> <<(16 * HexVal(t[2])) + HexVal(t[3])>>, n |-> 3]
            ELSE no
        ELSE IF t[1] = 117 THEN
            IF Len(t) >= 5 /\ \A i \in 2..5 : HexVal(t[i]) >= 0
            THEN LET r == (4096 * HexVal(t[2])) + (256 * HexVal(t[3]))
                              + (16 * HexVal(t[4])) + HexVal(t[5])
                 IN  IF r >= 55296 /\ r <= 57343 THEN no
                     ELSE [ok |-> TRUE, val |-> EncodeRune(r), n |-> 5]
            ELSE no
        ELSE IF t[1] \in DOMAIN simple
             THEN [ok |-> TRUE, val |-> <<simple[t[1]]>>, n |-> 1]
             ELSE no

\* An interpreted string literal, after its opening quote.
RECURSIVE InterpBody(_)
InterpBody(t) ==
    IF t = <<>> \/ t[1] = 10 THEN ErrP
    ELSE IF t[1] = 34 THEN [ok |-> TRUE, val |-> <<>>, rest |-> Tail(t)]
    ELSE IF t[1] = 92 THEN
        LET e == Escape(Tail(t))
        IN  IF ~e.ok THEN ErrP
            ELSE LET r == InterpBody(Drop(t, 1 + e.n))
                 IN  IF r.ok THEN [r EXCEPT !.val = e.val \o @] ELSE ErrP
    ELSE LET r == InterpBody(Tail(t))
         IN  IF r.ok THEN [r EXCEPT !.val = <<t[1]>> \o @] ELSE ErrP

\* A raw string literal, after its opening backtick: the characters up to
\* the next backtick, carriage returns discarded.
RECURSIVE RawBody(_)
RawBody(t) ==
    IF t = <<>> THEN ErrP
    ELSE IF t[1] = 96 THEN [ok |-> TRUE, val |-> <<>>, rest |-> Tail(t)]
    ELSE LET r == RawBody(Tail(t))
         IN  IF r.ok
             THEN [r EXCEPT !.val = (IF t[1] = 13 THEN <<>> ELSE <<t[1]>>) \o @]
             ELSE ErrP

Operand(t) ==
    IF t = <<>> THEN ErrP
    ELSE IF t[1] = 96 THEN RawBody(Tail(t))
    ELSE IF t[1] = 34 THEN InterpBody(Tail(t))
    ELSE ErrP

RECURSIVE Expr(_)
Expr(t) ==
    LET o == Operand(t)
    IN  IF ~o.ok THEN Err
        ELSE IF o.rest = <<>> THEN Ok(o.val)
        ELSE IF o.rest[1] # 43 THEN Err
        ELSE LET r == Expr(Tail(o.rest))
             IN  IF r.ok THEN Ok(o.val \o r.val) ELSE Err

RECURSIVE Contains(_, _)
Contains(s, sub) ==
    IF Len(s) < Len(sub) THEN FALSE
    ELSE SubSeq(s, 1, Len(sub)) = sub \/ Contains(Tail(s), sub)

\* Source text is UTF-8; a compiler may reject a NUL in it and a byte order
\* mark past the start of the file (gc does both): restricted says whether
\* the compiler at hand does.
SourceOK(text, restricted) ==
    /\ Valid(text)
    /\ restricted => ~Contains(text, BOM) /\ ~Contains(text, <<0>>)

GoEval(text, restricted) == IF SourceOK(text, restricted) THEN Expr(text) ELSE Err

-----------------------------------------------------------------------------
(* The four strategies on a file content *)

Strategies == {"compressed_nomemcopy", "compressed_memcopy",
               "uncompressed_nomemcopy", "uncompressed_memcopy"}

Compressed(s) == s \in {"compressed_nomemcopy", "compressed_memcopy"}

\* uncompressed_memcopy, lines 374-378: the literal for the bytes read
MemcopyLiteral(b) ==
    IF Valid(b) THEN <<96>> \o sanitize(b) \o <<96>> ELSE Quote(b)

\* The string expression strategy writer s emits for file content b
\* (inside []byte(...) for the memcopy writers).
LiteralExpr(s, b) ==
    IF Compressed(s)
    THEN <<34>> \o StringWriter(GzipOnWrite(b)) \o StringWriter(GzipOnClose(b)) \o <<34>>
    ELSE IF s = "uncompressed_nomemcopy" THEN <<34>> \o StringWriter(b) \o <<34>>
    ELSE MemcopyLiteral(b)

\* The generated <id>_bytes() of strategy s on the literal's value v:
\* bindata_read for three of them, the literal itself for uncompressed_memcopy.
asset_bytes(s, v) == IF Compressed(s) THEN Gunzip(v) ELSE Ok(v)

-----------------------------------------------------------------------------
(* The byte-level pipeline: a literal is emitted for B, the Go compiler
   reads it, and the generated <id>_bytes() decodes its value. *)

\* "sanitize" stands for sanitize applied on its own, between two backticks.
RTInit ==
    /\ strict \in BOOLEAN
    /\ rtB \in SeqsUpTo(ByteAlphabet, MaxLen)
    /\ rtStrat \in Strategies \cup {"sanitize"}
    /\ rtStage = "input"
    /\ rtText = <<>>
    /\ rtVal = Ok(<<>>)

EmitLiteral ==
    /\ rtStage = "input"
    /\ rtText' = IF rtStrat = "sanitize" THEN <<96>> \o sanitize(rtB) \o <<96>>
                 ELSE LiteralExpr(rtStrat, rtB)
    /\ rtStage' = "emitted"
    /\ UNCHANGED <<rtB, rtStrat, rtVal, strict, runVars>>

CompileLiteral ==
    /\ rtStage = "emitted"
    /\ rtVal' = GoEval(rtText, strict)
    /\ rtStage' = "parsed"
    /\ UNCHANGED <<rtB, rtStrat, rtText, strict, runVars>>

CallAssetBytes ==
    /\ rtStage = "parsed"
    /\ rtStrat \in Strategies
    /\ rtVal' = IF rtVal.ok THEN asset_bytes(rtStrat, rtVal.val) ELSE Err
    /\ rtStage' = "decoded"
    /\ UNCHANGED <<rtB, rtStrat, rtText, strict, runVars>>

-----------------------------------------------------------------------------
(* writeRelease: configuration, table of contents, file system *)

Configs == [NoCompress : BOOLEAN, NoMemCopy : BOOLEAN]

\* Assets as the table-of-contents builder hands them over: Func is a Go
\* identifier, distinct for distinct assets.
AssetPool ==
    { [Name |-> "a",       Func |-> "a",       Path |-> "in/a"],
      [Name |-> "a_bytes", Func |-> "a_bytes", Path |-> "in/a_bytes"],
      [Name |-> "b.txt",   Func |-> "b_txt",   Path |-> "in/b.txt"] }

Injective(q) == \A i, j \in DOMAIN q : i # j => q[i] # q[j]

Tocs == {q \in SeqsUpTo(AssetPool, MaxAssets) : Injective(q)}

\* The states a source file is seen in: content, permission bits, mtime.
FileVersions ==
    { [content |-> <<65, 96>>, mode |-> 420, modTime |-> 1],
      [content |-> <<>>,       mode |-> 384, modTime |-> 2] }

PathsOf(q) == {q[i].Path : i \in DOMAIN q}

\* os.FileInfo of a file version
FileInfo(v) == [size |-> Len(v.content), mode |-> v.mode, modTime |-> v.modTime]

NoInfo == [size |-> 0, mode |-> 0, modTime |-> 0]
NoRead == [content |-> <<>>, err |-> FALSE, werr |-> FALSE]
NoPrev == [done |-> FALSE, calls |-> <<>>, out |-> <<>>, ret |-> "running"]

-----------------------------------------------------------------------------
(* What the writers write.  A chunk is one write to w. *)

Chunk(kind, by) ==
    [kind |-> kind, by |-> by, func |-> "", name |-> "", text |-> <<>>,
     helper |-> "", littype |-> "", reads |-> FALSE, defs |-> {},
     info |-> NoInfo]

\* The four strategy prologues: helper is the type of bindata_read's data
\* parameter, "" where no bindata_read is defined.
header_compressed_nomemcopy ==
    [Chunk("header", "header_compressed_nomemcopy") EXCEPT
        !.helper = "string", !.defs = {"init", "bindata_read"}]

header_compressed_memcopy ==
    [Chunk("header", "header_compressed_memcopy") EXCEPT
        !.helper = "[]byte", !.defs = {"init", "bindata_read"}]

header_uncompressed_nomemcopy ==
    [Chunk("header", "header_uncompressed_nomemcopy") EXCEPT
        !.helper = "string", !.defs = {"init", "bindata_read"}]

header_uncompressed_memcopy ==
    [Chunk("header", "header_uncompressed_memcopy") EXCEPT !.defs = {"init"}]

header_release_common_chunk ==
    [Chunk("common", "header_release_common") EXCEPT
        !.defs = {"asset", "bindata_file_info"}]

\* writeReleaseHeader with the two NoCompress branches exchanged
HeaderSwapped(cfg) ==
    IF cfg.NoCompress
    THEN (IF cfg.NoMemCopy THEN header_uncompressed_memcopy
                           ELSE header_uncompressed_nomemcopy)
    ELSE (IF cfg.NoMemCopy THEN header_compressed_nomemcopy
                           ELSE header_compressed_memcopy)

\* writeReleaseHeader's choice
HeaderWriter(cfg) ==
    IF cfg.NoCompress
    THEN (IF cfg.NoMemCopy THEN header_uncompressed_nomemcopy
                           ELSE header_uncompressed_memcopy)
    ELSE (IF cfg.NoMemCopy THEN header_compressed_nomemcopy
                           ELSE header_compressed_memcopy)

\* writeReleaseAsset's choice
AssetWriter(cfg) ==
    IF cfg.NoCompress
    THEN (IF cfg.NoMemCopy THEN "uncompressed_nomemcopy" ELSE "uncompressed_memcopy")
    ELSE (IF cfg.NoMemCopy THEN "compressed_nomemcopy" ELSE "compressed_memcopy")

\* The first Fprintf of strategy writer s:  var _<Func> = "   (string)
\*                                          var _<Func> = []byte("  or  []byte(
\* (every writer opening a string literal, as the nomemcopy writers do)
VarTypeAllString(s) == "string"

VarType(s) ==
    IF s \in {"compressed_nomemcopy", "uncompressed_nomemcopy"}
    THEN "string" ELSE "[]byte"

VarChunk(s, a) ==
    [Chunk("var", s) EXCEPT
        !.func = a.Func, !.littype = VarType(s), !.defs = {"_" \o a.Func},
        !.text = IF s = "uncompressed_memcopy" THEN <<>> ELSE <<34>>]

\* The bytes a strategy writer writes between the two.
DataChunk(s, a, text) == [Chunk("data", s) EXCEPT !.func = a.Func, !.text = text]

\* The last Fprintf of strategy writer s: the literal's end and <Func>_bytes().
BytesChunk(s, a) ==
    [Chunk("bytes", s) EXCEPT
        !.func = a.Func, !.defs = {a.Func \o "_bytes"},
        !.reads = (s # "uncompressed_memcopy"),
        !.name = IF s = "uncompressed_memcopy" THEN "" ELSE a.Name,
        !.text = IF s = "uncompressed_memcopy" THEN <<>> ELSE <<34>>]

\* asset_release_common's Fprintf: the constructor <Func>() with the metadata
\* record built from the os.FileInfo fi.
\* (the record built from the file as it is when the constructor is written)
CtorChunkLive(a, info) ==
    [Chunk("ctor", "asset_release_common") EXCEPT
        !.func = a.Func, !.name = a.Name, !.defs = {a.Func},
        !.info = FileInfo(files[a.Path])]

CtorChunk(a, info) ==
    [Chunk("ctor", "asset_release_common") EXCEPT
        !.func = a.Func, !.name = a.Name, !.defs = {a.Func}, !.info = info]

-----------------------------------------------------------------------------
(* writeRelease, one step per I/O call *)

Init ==
    /\ c \in Configs
    /\ toc \in Tocs
    /\ files \in [PathsOf(toc) -> FileVersions]
    /\ pc = "header"
    /\ idx = 1
    /\ out = <<>>
    /\ calls = <<>>
    /\ openFds = {}
    /\ rd = NoRead
    /\ fi = NoInfo
    /\ ret = "running"
    /\ prev = NoPrev
    /\ rtB = <<>> /\ rtStrat = "sanitize" /\ rtStage = "idle"
    /\ rtText = <<>> /\ rtVal = Ok(<<>>) /\ strict = FALSE

\* One I/O call and what the environment answered.
Call(op, ok, ch, content, info) ==
    [op |-> op, ok |-> ok, what |-> ch.kind, func |-> ch.func, asset |-> idx,
     content |-> content, info |-> info]

NoChunk == Chunk("", "")

WriteCall(ch, ok) == Call("write", ok, ch, <<>>, NoInfo)

\* w.Write of one chunk: accepted whole, or failed
Written(ch, ok) == IF ok THEN Append(out, ch) ELSE out

Goto(p) == pc' = p /\ ret' = ret
Return(r) == pc' = "done" /\ ret' = r

\* (writeReleaseAsset without its defer)
DeferredCloseMissing(fds, i) == fds

\* defer fd.Close() of writeReleaseAsset, run when it returns

DeferredClose(fds, i) == fds \ {i}

\* writeReleaseAsset returns err to writeRelease, which returns it
AssetFails == Return("error") /\ openFds' = DeferredClose(openFds, idx)

\* (the loop taking the assets from the end of toc)
assetLast == toc[Len(toc) + 1 - idx]

\* &toc[i] of writeRelease's loop
asset == toc[idx]
strategy == AssetWriter(c)

\* writeReleaseHeader, lines 37-53: the strategy's prologue
WriteStrategyHeader ==
    /\ pc = "header"
    /\ \E ok \in BOOLEAN :
        /\ out' = Written(HeaderWriter(c), ok)
        /\ calls' = Append(calls, WriteCall(HeaderWriter(c), ok))
        /\ IF ok THEN Goto("common") ELSE Return("error")
    /\ UNCHANGED <<c, toc, files, idx, openFds, rd, fi, prev, rtVars>>

\* writeReleaseHeader, line 54, and writeRelease, lines 20-22
header_release_common ==
    /\ pc = "common"
    /\ \E ok \in BOOLEAN :
        /\ out' = Written(header_release_common_chunk, ok)
        /\ calls' = Append(calls, WriteCall(header_release_common_chunk, ok))
        /\ IF ok THEN Goto("open") ELSE Return("error")
    /\ UNCHANGED <<c, toc, files, idx, openFds, rd, fi, prev, rtVars>>

\* writeRelease, lines 24 and 31: the loop is over
ReturnNil ==
    /\ pc = "open"
    /\ idx > Len(toc)
    /\ Return("nil")
    /\ UNCHANGED <<c, toc, files, idx, out, calls, openFds, rd, fi, prev, rtVars>>

\* writeReleaseAsset, lines 61-66
OpenAsset ==
    /\ pc = "open"
    /\ idx <= Len(toc)
    /\ \E ok \in BOOLEAN :
        /\ calls' = Append(calls, Call("open", ok, NoChunk, <<>>, NoInfo))
        /\ IF ok THEN Goto("var") /\ openFds' = openFds \cup {idx}
                 ELSE Return("error") /\ openFds' = openFds
    /\ rd' = NoRead
    /\ UNCHANGED <<c, toc, files, idx, out, fi, prev, rtVars>>

\* The strategy writer's first Fprintf (lines 287, 314, 341, 365)
WriteVar ==
    /\ pc = "var"
    /\ \E ok \in BOOLEAN :
        /\ out' = Written(VarChunk(strategy, asset), ok)
        /\ calls' = Append(calls, WriteCall(VarChunk(strategy, asset), ok))
        /\ IF ok
           THEN /\ Goto(IF Compressed(strategy) THEN "gzcopy"
                        ELSE IF strategy = "uncompressed_nomemcopy" THEN "copy"
                        ELSE "readall")
                /\ openFds' = openFds
           ELSE AssetFails
    /\ UNCHANGED <<c, toc, files, idx, rd, fi, prev, rtVars>>

\* compressed_*: io.Copy(gz, r), lines 292-293 and 319-320.  The gzip writer
\* hands its header to the StringWriter on the first Write.
GzipCopy ==
    /\ pc = "gzcopy"
    /\ \E rok, wok \in BOOLEAN :
        LET content == files[asset.Path].content
            data == GzipOnWrite(content)
            wrote == rok /\ data # <<>>
            ch == DataChunk(strategy, asset, StringWriter(data))
        IN  /\ calls' = calls
                  \o <<Call("read", rok, NoChunk, IF rok THEN content ELSE <<>>, NoInfo)>>
                  \o (IF wrote THEN <<WriteCall(ch, wok)>> ELSE <<>>)
            /\ out' = IF wrote THEN Written(ch, wok) ELSE out
            /\ rd' = [content |-> IF rok THEN content ELSE <<>>,
                      err |-> ~rok \/ (wrote /\ ~wok),
                      werr |-> wrote /\ ~wok]
    /\ Goto("gzclose")
    /\ UNCHANGED <<c, toc, files, idx, openFds, fi, prev, rtVars>>

\* compressed_*: gz.Close() and the test of io.Copy's error, lines 294-298 and
\* 321-325.  Close flushes what is left unless a write through gz has failed;
\* its own result is dropped.
GzipClose ==
    /\ pc = "gzclose"
    /\ \E wok \in BOOLEAN :
        LET ch == DataChunk(strategy, asset, StringWriter(GzipOnClose(rd.content)))
        IN  IF rd.werr
            THEN out' = out /\ calls' = calls
            ELSE out' = Written(ch, wok) /\ calls' = Append(calls, WriteCall(ch, wok))
    /\ IF rd.err THEN AssetFails ELSE Goto("bytes") /\ openFds' = openFds
    /\ UNCHANGED <<c, toc, files, idx, rd, fi, prev, rtVars>>

\* uncompressed_nomemcopy: io.Copy(&StringWriter{Writer: w}, r), lines 346-349
PlainCopy ==
    /\ pc = "copy"
    /\ \E rok, wok \in BOOLEAN :
        LET content == files[asset.Path].content
            wrote == rok /\ content # <<>>
            ch == DataChunk(strategy, asset, StringWriter(content))
        IN  /\ calls' = calls
                  \o <<Call("read", rok, NoChunk, IF rok THEN content ELSE <<>>, NoInfo)>>
                  \o (IF wrote THEN <<WriteCall(ch, wok)>> ELSE <<>>)
            /\ out' = IF wrote THEN Written(ch, wok) ELSE out
            /\ rd' = [content |-> IF rok THEN content ELSE <<>>,
                      err |-> ~rok \/ (wrote /\ ~wok),
                      werr |-> wrote /\ ~wok]
            /\ IF ~rok \/ (wrote /\ ~wok) THEN AssetFails
               ELSE Goto("bytes") /\ openFds' = openFds
    /\ UNCHANGED <<c, toc, files, idx, fi, prev, rtVars>>

\* uncompressed_memcopy: ioutil.ReadAll(r), lines 370-373
ReadAll ==
    /\ pc = "readall"
    /\ \E rok \in BOOLEAN :
        LET content == files[asset.Path].content
        IN  /\ calls' = Append(calls,
                  Call("read", rok, NoChunk, IF rok THEN content ELSE <<>>, NoInfo))
            /\ rd' = [content |-> IF rok THEN content ELSE <<>>,
                      err |-> ~rok, werr |-> FALSE]
            /\ IF rok THEN Goto("literal") /\ openFds' = openFds ELSE AssetFails
    /\ UNCHANGED <<c, toc, files, idx, out, fi, prev, rtVars>>

\* uncompressed_memcopy: the literal, lines 374-378; Fprintf's result is dropped
WriteLiteral ==
    /\ pc = "literal"
    /\ \E wok \in BOOLEAN :
        LET ch == DataChunk(strategy, asset, MemcopyLiteral(rd.content))
        IN  /\ out' = Written(ch, wok)
            /\ calls' = Append(calls, WriteCall(ch, wok))
    /\ Goto("bytes")
    /\ UNCHANGED <<c, toc, files, idx, openFds, rd, fi, prev, rtVars>>

\* The strategy writer's last Fprintf (lines 300-310, 327-337, 351-361,
\* 380-387) and writeReleaseAsset's test of its result, lines 81-83
WriteBytesFunc ==
    /\ pc = "bytes"
    /\ \E ok \in BOOLEAN :
        /\ out' = Written(BytesChunk(strategy, asset), ok)
        /\ calls' = Append(calls, WriteCall(BytesChunk(strategy, asset), ok))
        /\ IF ok THEN Goto("stat") /\ openFds' = openFds ELSE AssetFails
    /\ UNCHANGED <<c, toc, files, idx, rd, fi, prev, rtVars>>

\* asset_release_common: os.Stat(asset.Path), lines 391-394
Stat ==
    /\ pc = "stat"
    /\ \E ok \in BOOLEAN :
        LET info == FileInfo(files[asset.Path])
        IN  /\ calls' = Append(calls,
                  Call("stat", ok, NoChunk, <<>>, IF ok THEN info ELSE NoInfo))
            /\ IF ok THEN Goto("ctor") /\ fi' = info /\ openFds' = openFds
                     ELSE AssetFails /\ fi' = fi
    /\ UNCHANGED <<c, toc, files, idx, out, rd, prev, rtVars>>

\* asset_release_common: the constructor, lines 396-408; writeReleaseAsset
\* returns, the deferred Close runs, and writeRelease's loop goes on (24-29)
WriteConstructor ==
    /\ pc = "ctor"
    /\ \E ok \in BOOLEAN :
        /\ out' = Written(CtorChunk(asset, fi), ok)
        /\ calls' = Append(calls, WriteCall(CtorChunk(asset, fi), ok))
        /\ IF ok THEN Goto("open") /\ idx' = idx + 1 ELSE Return("error") /\ idx' = idx
    /\ openFds' = DeferredClose(openFds, idx)
    /\ UNCHANGED <<c, toc, files, rd, fi, prev, rtVars>>

\* Another process rewrites the source file of the asset being embedded.  The
\* run sees the file when it reads it and when it stats it: the changes are
\* those just before the read, between the read and the stat, and after it.
ExternalChange ==
    /\ pc \in {"gzcopy", "copy", "readall", "stat", "ctor"}
    /\ idx <= Len(toc)
    /\ \E v \in FileVersions \ {files[asset.Path]} :
        files' = [files EXCEPT ![asset.Path] = v]
    /\ UNCHANGED <<c, toc, pc, idx, out, calls, openFds, rd, fi, ret, prev, rtVars>>

\* A second generation run over the same table of contents and Config.
Rerun ==
    /\ pc = "done"
    /\ ~prev.done
    /\ prev' = [done |-> TRUE, calls |-> calls, out |-> out, ret |-> ret]
    /\ pc' = "header" /\ idx' = 1 /\ out' = <<>> /\ calls' = <<>>
    /\ rd' = NoRead /\ fi' = NoInfo /\ ret' = "running"
    /\ UNCHANGED <<c, toc, files, openFds, rtVars>>

RunStep ==
    \/ WriteStrategyHeader
    \/ header_release_common
    \/ ReturnNil
    \/ OpenAsset
    \/ WriteVar
    \/ GzipCopy
    \/ GzipClose
    \/ PlainCopy
    \/ ReadAll
    \/ WriteLiteral
    \/ WriteBytesFunc
    \/ Stat
    \/ WriteConstructor
    \/ ExternalChange

Next == RunStep

Spec == Init /\ [][Next]_vars

\* The second run is followed as long as the environment answers it as it
\* answered the first.
SameAnswers(k) ==
    k > Len(prev.calls) \/
        /\ calls'[k].ok = prev.calls[k].ok
        /\ calls'[k].content = prev.calls[k].content
        /\ calls'[k].info = prev.calls[k].info

Replay == prev.done => \A k \in (Len(calls) + 1)..Len(calls') : SameAnswers(k)

NextPair ==
    \/ WriteStrategyHeader /\ Replay
    \/ header_release_common /\ Replay
    \/ ReturnNil
    \/ OpenAsset /\ Replay
    \/ WriteVar /\ Replay
    \/ GzipCopy /\ Replay
    \/ GzipClose /\ Replay
    \/ PlainCopy /\ Replay
    \/ ReadAll /\ Replay
    \/ WriteLiteral /\ Replay
    \/ WriteBytesFunc /\ Replay
    \/ Stat /\ Replay
    \/ WriteConstructor /\ Replay
    \/ ExternalChange
    \/ Rerun

InitPair == Init /\ Len(toc) <= MaxPairAssets

SpecPair == InitPair /\ [][NextPair]_vars

RTNext == EmitLiteral \/ CompileLiteral \/ CallAssetBytes

RTStart ==
    /\ RTInit
    /\ c = [NoCompress |-> FALSE, NoMemCopy |-> FALSE] /\ toc = <<>>
    /\ files = <<>> /\ pc = "idle" /\ idx = 1 /\ out = <<>> /\ calls = <<>>
    /\ openFds = {} /\ rd = NoRead /\ fi = NoInfo /\ ret = "running"
    /\ prev = NoPrev

SpecRT == RTStart /\ [][RTNext]_vars

-----------------------------------------------------------------------------
(* Properties *)

Failed(i) == ~calls[i].ok
SomeCallFailed == \E i \in DOMAIN calls : Failed(i)

IsWrite(x) == x.op = "write"
\* The writes the run has issued to w, in order, failed ones included.
Writes == SelectSeq(calls, IsWrite)

AssetKinds == {"var", "data", "bytes", "ctor"}

\* C1. Round-trip: for each of the four strategies and every file content B,
\* the emitted literal, read by the Go compiler and passed through the
\* strategy's <id>_bytes(), yields exactly B.
C1_RoundTrip ==
    (rtStrat \in Strategies /\ rtStage = "decoded") => rtVal = Ok(rtB)

\* C6. Sanitizer re-parse: for every byte sequence B, sanitize(B) between two
\* backticks evaluates, under Go's literal rules, to exactly B.
C6_SanitizeReparse ==
    (rtStrat = "sanitize" /\ rtStage = "parsed") => rtVal = Ok(rtB)

\* C2. Fail-fast: once a step of the run has failed, no further write to the
\* output is attempted, no later asset is processed, and writeRelease does not
\* return nil.
C2_FailFast ==
    /\ \A i, j \in DOMAIN calls :
         (i < j /\ Failed(i)) =>
             calls[j].op # "write" /\ calls[j].asset = calls[i].asset
    /\ SomeCallFailed => ret # "nil"

\* C3. Metadata fidelity: in a run that returns nil, the metadata written for
\* an asset (size, mode, modTime) is that of the very file state whose content
\* was read and embedded, so size is the length of the embedded content.
C3_MetadataFidelity ==
    ret = "nil" =>
        \A k \in DOMAIN calls, n \in DOMAIN out :
            ( /\ calls[k].op = "read"
              /\ out[n].kind = "ctor"
              /\ out[n].func = toc[calls[k].asset].Func )
            => /\ out[n].info.size = Len(calls[k].content)
               /\ \E v \in FileVersions :
                    v.content = calls[k].content /\ FileInfo(v) = out[n].info

CompressedWriters ==
    {"header_compressed_nomemcopy", "header_compressed_memcopy",
     "compressed_nomemcopy", "compressed_memcopy"}
NoMemCopyWriters ==
    {"header_compressed_nomemcopy", "header_uncompressed_nomemcopy",
     "compressed_nomemcopy", "uncompressed_nomemcopy"}
HeaderWriters ==
    {"header_compressed_nomemcopy", "header_compressed_memcopy",
     "header_uncompressed_nomemcopy", "header_uncompressed_memcopy"}

\* C4. Strategy selection: the prologue is written by one of the four header
\* writers and every asset literal and <id>_bytes() by one of the four asset
\* writers, and all of them are the writers of the strategy the Config names:
\* compressed iff not NoCompress, nomemcopy iff NoMemCopy.
C4_StrategySelection ==
    \A n \in DOMAIN out :
        out[n].kind \in {"header", "var", "data", "bytes"} =>
            /\ (out[n].kind = "header") <=> (out[n].by \in HeaderWriters)
            /\ (out[n].kind # "header") <=> (out[n].by \in Strategies)
            /\ (out[n].by \in CompressedWriters) <=> ~c.NoCompress
            /\ (out[n].by \in NoMemCopyWriters) <=> c.NoMemCopy

C4_Witness ==
    /\ ret = "nil" /\ Len(toc) = 2
    /\ c.NoCompress /\ ~c.NoMemCopy
    /\ \E n, m \in DOMAIN out :
         out[n].by = "header_uncompressed_memcopy" /\ out[m].by = "uncompressed_memcopy"

\* C5. Strategy orthogonality: an <id>_bytes() in the output calls bindata_read
\* only if the prologue of the same output defines it, and then the asset's
\* literal has the type of bindata_read's data parameter; with the
\* uncompressed-copy strategy the prologue defines no bindata_read and no
\* <id>_bytes() calls it.
C5_Orthogonality ==
    /\ \A n \in DOMAIN out :
         (out[n].kind = "bytes" /\ out[n].reads) =>
             \E h, v \in DOMAIN out :
                 /\ h < v /\ v < n
                 /\ out[h].kind = "header" /\ out[h].helper # ""
                 /\ out[v].kind = "var" /\ out[v].func = out[n].func
                 /\ out[v].littype = out[h].helper
    /\ (c.NoCompress /\ ~c.NoMemCopy) =>
         \A n \in DOMAIN out :
             /\ out[n].kind = "header" => out[n].helper = ""
             /\ out[n].kind = "bytes" => ~out[n].reads

C5_Witness ==
    /\ ret = "nil" /\ Len(toc) = 2
    /\ ~c.NoCompress /\ ~c.NoMemCopy
    /\ \E n \in DOMAIN out : out[n].kind = "bytes" /\ out[n].reads

\* The answers the environment gave a run: the outcome of every call, the
\* content every read returned, the FileInfo every stat returned.
Answers(log) ==
    [k \in DOMAIN log |->
        [ok |-> log[k].ok, content |-> log[k].content, info |-> log[k].info]]

Follows(x, y) ==
    \/ x.what = "header" /\ y.what = "common"
    \/ x.what = "common" /\ y.what = "var" /\ y.asset = 1
    \/ x.what \in {"var", "data"} /\ y.what \in {"data", "bytes"} /\ y.asset = x.asset
    \/ x.what = "bytes" /\ y.what = "ctor" /\ y.asset = x.asset
    \/ x.what = "ctor" /\ y.what = "var" /\ y.asset = x.asset + 1

\* C8. Emission order: the prologue and the common definitions are written
\* once, first; then the assets in table-of-contents order, none skipped or
\* repeated; for each asset its literal, then its <id>_bytes(), then its
\* <id>(); a run that returns nil has written all of them.
C8_EmissionOrder ==
    LET W == Writes
    IN  /\ W # <<>> => W[1].what = "header"
        /\ \A k \in 1..(Len(W) - 1) : Follows(W[k], W[k + 1])
        /\ \A k \in DOMAIN W :
             W[k].what \in AssetKinds =>
                 W[k].asset \in DOMAIN toc /\ W[k].func = toc[W[k].asset].Func
        /\ ret = "nil" =>
             /\ Len(W) >= 2
             /\ \A i \in DOMAIN toc : \A kind \in {"var", "bytes", "ctor"} :
                  Cardinality({n \in DOMAIN out :
                      out[n].kind = kind /\ out[n].func = toc[i].Func}) = 1
             /\ W[Len(W)].what = IF toc = <<>> THEN "common" ELSE "ctor"
             /\ toc # <<>> => W[Len(W)].asset = Len(toc)

C8_Witness ==
    /\ ret = "nil" /\ Len(toc) = 2 /\ ~c.NoCompress
    /\ ~SomeCallFailed
    /\ Len(Writes) = 12

\* C9. Emitted symbol uniqueness: the assets' Func being pairwise distinct,
\* the top-level names written for the assets (_<id>, <id>_bytes, <id>) are
\* pairwise distinct across the output.
C9_UniqueSymbols ==
    Injective([i \in DOMAIN toc |-> toc[i].Func]) =>
        \A n, m \in DOMAIN out :
            (n # m /\ out[n].kind \in AssetKinds /\ out[m].kind \in AssetKinds)
                => out[n].defs \cap out[m].defs = {}

\* C10. Source-file handles: at most one source file is open at any point,
\* and only that of the asset being written; none is open between two assets
\* nor once writeRelease has returned, whichever way writeReleaseAsset left.
C10_HandleDiscipline ==
    /\ Cardinality(openFds) <= 1
    /\ openFds \subseteq {idx}
    /\ pc \in {"header", "common", "open", "done"} => openFds = {}
    /\ pc \in {"var", "gzcopy", "gzclose", "copy", "readall", "literal",
               "bytes", "stat", "ctor"} => openFds = {idx}

C10_Witness ==
    /\ pc = "done" /\ ret = "error" /\ idx = 2
    /\ calls # <<>>
    /\ calls[Len(calls)].op = "stat" /\ ~calls[Len(calls)].ok
    /\ openFds = {}

====
